---- MODULE Spec2Model ----
(***************************************************************************)
(* Model of configuration/configuration.py of netbox-docker: the settings  *)
(* module that is executed once, top to bottom, when NetBox imports it.    *)
(* Its inputs are the process environment and the secret files under       *)
(* /run/secrets; its output is the module namespace (the settings).        *)
(*                                                                         *)
(* Python strings are sequences of one-character strings.  Every Python    *)
(* value is a record of one shape, tagged by t:                            *)
(*   "str"  (s), "int" (n), "bool" (b), "list" (l, a list of strings),     *)
(*   "none" (None), "absent" (no such key / name not bound).               *)
(***************************************************************************)
EXTENDS Integers, Sequences, FiniteSets, TLC

VARIABLES environ, secrets, settings, pc, call, ret

vars == <<environ, secrets, settings, pc, call, ret>>

----------------------------------------------------------------------------
(* Python values *)

Str(s) == [t |-> "str", s |-> s, n |-> 0, b |-> FALSE, l |-> <<>>]

IntV(n) == [t |-> "int", s |-> <<>>, n |-> n, b |-> FALSE, l |-> <<>>]

BoolV(b) == [t |-> "bool", s |-> <<>>, n |-> 0, b |-> b, l |-> <<>>]

ListV(l) == [t |-> "list", s |-> <<>>, n |-> 0, b |-> FALSE, l |-> l]

None == [t |-> "none", s |-> <<>>, n |-> 0, b |-> FALSE, l |-> <<>>]

Absent == [t |-> "absent", s |-> <<>>, n |-> 0, b |-> FALSE, l |-> <<>>]

(* Python truthiness, as tested by `if _X:` *)
Truthy(v) ==
    CASE v.t = "str" -> v.s # <<>>
      [] v.t = "int" -> v.n # 0
      [] v.t = "bool" -> v.b
      [] v.t = "list" -> v.l # <<>>
      [] OTHER -> FALSE

(* The outcome of evaluating an expression: a value, or an exception.     *)
(* calls counts the invocations of map_fn made on the way.                 *)
Returned(v, k) == [raised |-> FALSE, v |-> v, calls |-> k]

Raised(k) == [raised |-> TRUE, v |-> None, calls |-> k]

----------------------------------------------------------------------------
(* Characters and str methods *)

Whitespace == {" ", "\n", "\t"}

Digits == <<"0", "1", "2", "3", "4", "5", "6", "7", "8", "9">>

UpperCase == <<"A", "B", "C", "D", "E", "F", "G", "H", "I", "J", "K", "L", "M",
               "N", "O", "P", "Q", "R", "S", "T", "U", "V", "W", "X", "Y", "Z">>

LowerCase == <<"a", "b", "c", "d", "e", "f", "g", "h", "i", "j", "k", "l", "m",
               "n", "o", "p", "q", "r", "s", "t", "u", "v", "w", "x", "y", "z">>

IsDigit(c) == \E i \in DOMAIN Digits : Digits[i] = c

DigitValue(c) == (CHOOSE i \in DOMAIN Digits : Digits[i] = c) - 1

LowerChar(c) ==
    IF \E i \in DOMAIN UpperCase : UpperCase[i] = c
    THEN LowerCase[CHOOSE i \in DOMAIN UpperCase : UpperCase[i] = c]
    ELSE c

(* str.lower() *)
Lower(s) == [i \in DOMAIN s |-> LowerChar(s[i])]

(* str.lstrip() / str.rstrip() / str.strip() with no argument *)
RECURSIVE LStrip(_)
LStrip(s) ==
    IF s # <<>> /\ Head(s) \in Whitespace THEN LStrip(Tail(s)) ELSE s

RECURSIVE RStrip(_)
RStrip(s) ==
    IF s # <<>> /\ s[Len(s)] \in Whitespace
    THEN RStrip(SubSeq(s, 1, Len(s) - 1))
    ELSE s

Strip(s) == RStrip(LStrip(s))

(* file.readline(): the text up to and including the first newline *)
ReadLine(data) ==
    IF \E i \in DOMAIN data : data[i] = "\n"
    THEN SubSeq(data, 1, CHOOSE i \in DOMAIN data :
                            /\ data[i] = "\n"
                            /\ \A j \in 1..(i - 1) : data[j] # "\n")
    ELSE data

(* str.split(' '): cut at every single space, keeping empty pieces *)
RECURSIVE SplitSpace(_)
SplitSpace(s) ==
    IF \E i \in DOMAIN s : s[i] = " "
    THEN LET k == CHOOSE i \in DOMAIN s :
                     /\ s[i] = " "
                     /\ \A j \in 1..(i - 1) : s[j] # " "
         IN  <<SubSeq(s, 1, k - 1)>> \o SplitSpace(SubSeq(s, k + 1, Len(s)))
    ELSE <<s>>

(* filter(None, pieces): drop the falsy (empty) pieces *)
FilterNone(l) == SelectSeq(l, LAMBDA x : x # <<>>)

(* int(str): surrounding whitespace ignored, an optional sign, then digits *)
(* that single underscores may separate                                    *)
IntBody(s) ==
    LET t == Strip(s)
    IN  IF t # <<>> /\ t[1] \in {"+", "-"} THEN Tail(t) ELSE t

IsIntLiteral(s) ==
    LET d == IntBody(s)
    IN  /\ d # <<>>
        /\ \A i \in DOMAIN d : IsDigit(d[i]) \/ d[i] = "_"
        /\ d[1] # "_"
        /\ d[Len(d)] # "_"
        /\ \A i \in 1..(Len(d) - 1) : ~(d[i] = "_" /\ d[i + 1] = "_")

RECURSIVE DigitsValue(_, _)
DigitsValue(d, acc) ==
    IF d = <<>> THEN acc
    ELSE IF Head(d) = "_" THEN DigitsValue(Tail(d), acc)
    ELSE DigitsValue(Tail(d), 10 * acc + DigitValue(Head(d)))

IntOf(s) ==
    LET t == Strip(s)
        mag == DigitsValue(IntBody(s), 0)
    IN  IF t[1] = "-" THEN 0 - mag ELSE mag

----------------------------------------------------------------------------
(* The helper functions of configuration.py *)

(* A file under /run/secrets: st is "missing" or "denied" (open() raises   *)
(* an EnvironmentError), "undecodable" (open() succeeds, reading the text  *)
(* raises UnicodeDecodeError) or "ok" (data is the file's text).           *)
NoFile == [st |-> "missing", data |-> <<>>]

File(data) == [st |-> "ok", data |-> data]

(* _read_secret with rstrip() in place of strip() *)
ReadSecretRStripOnly(sec, secret_name, default) ==
    LET f == sec[secret_name]
    IN  IF f.st \in {"missing", "denied"} THEN Returned(default, 0)
        ELSE IF f.st = "undecodable" THEN Raised(0)
        ELSE Returned(Str(RStrip(ReadLine(f.data))), 0)

(* _read_secret with `return None` in place of `return default` *)
ReadSecretDropsDefault(sec, secret_name, default) ==
    LET f == sec[secret_name]
    IN  IF f.st \in {"missing", "denied"} THEN Returned(None, 0)
        ELSE IF f.st = "undecodable" THEN Raised(0)
        ELSE Returned(Str(Strip(ReadLine(f.data))), 0)

(* _read_secret(secret_name, default) *)
ReadSecret(sec, secret_name, default) ==
    LET f == sec[secret_name]
    IN  IF f.st \in {"missing", "denied"} THEN Returned(default, 0)
        ELSE IF f.st = "undecodable" THEN Raised(0)
        ELSE Returned(Str(Strip(ReadLine(f.data))), 0)

(* environ.get(name, default) and `name in environ` *)
EnvironGet(env, name, default) ==
    IF env[name].t = "absent" THEN default ELSE env[name]

InEnviron(env, name) == env[name].t # "absent"

(* _EQUALS_TRUE = lambda value : value.lower() == 'true' *)
EqualsTrue(value) ==
    IF value.t = "str"
    THEN Returned(BoolV(Lower(value.s) = <<"t", "r", "u", "e">>), 1)
    ELSE Raised(1)

(* _AS_INT = lambda value : int(value) *)
AsInt(value) ==
    CASE value.t = "int" -> Returned(value, 1)
      [] value.t = "bool" -> Returned(IntV(IF value.b THEN 1 ELSE 0), 1)
      [] value.t = "str" ->
            IF IsIntLiteral(value.s) THEN Returned(IntV(IntOf(value.s)), 1)
            ELSE Raised(1)
      [] OTHER -> Raised(1)

(* _SPLIT_ON_SPACE = lambda value : list(filter(None, value.split(' '))) *)
SplitOnSpace(value) ==
    IF value.t = "str"
    THEN Returned(ListV(FilterNone(SplitSpace(value.s))), 1)
    ELSE Raised(1)

(* Calling map_fn, one of the three lambdas above *)
MapFn(map_fn, value) ==
    CASE map_fn = "_EQUALS_TRUE" -> EqualsTrue(value)
      [] map_fn = "_AS_INT" -> AsInt(value)
      [] map_fn = "_SPLIT_ON_SPACE" -> SplitOnSpace(value)

(* _environ_get_and_map with `if not env_value` in place of `== None` *)
EnvironGetAndMapFalsy(env, variable_name, default, map_fn) ==
    LET env_value == EnvironGet(env, variable_name, default)
    IN  IF ~Truthy(env_value) THEN Returned(env_value, 0)
        ELSE IF map_fn = "none" THEN Returned(env_value, 0)
        ELSE MapFn(map_fn, env_value)

(* _environ_get_and_map(variable_name, default, map_fn); map_fn "none" is  *)
(* the omitted argument                                                    *)
EnvironGetAndMap(env, variable_name, default, map_fn) ==
    LET env_value == EnvironGet(env, variable_name, default)
    IN  IF env_value = None THEN Returned(env_value, 0)
        ELSE IF map_fn = "none" THEN Returned(env_value, 0)
        ELSE MapFn(map_fn, env_value)

----------------------------------------------------------------------------
(* The module body: one definition per top-level statement.  A statement   *)
(* either raises (the import stops there) or binds names in the module     *)
(* namespace.  A dict display binds nothing when any of its items raises.  *)

Fail == [raised |-> TRUE, binds |-> {}]

Ok(binds) == [raised |-> FALSE, binds |-> binds]

(* NAME = <expression> *)
Assign(name, o) == IF o.raised THEN Fail ELSE Ok({<<name, o.v>>})

(* _NAME = <expression>; if _NAME: NAME = _NAME *)
AssignIfTruthy(name, o) ==
    IF o.raised THEN Fail
    ELSE IF Truthy(o.v) THEN Ok({<<name, o.v>>})
    ELSE Ok({})

(* NAME = { key: <expression>, ... } *)
Dict(items) ==
    IF \E i \in items : i[2].raised THEN Fail
    ELSE Ok({<<i[1], i[2].v>> : i \in items})

(* environ.get(name, default) as an expression *)
Get(env, name, default) == Returned(EnvironGet(env, name, default), 0)

(* line 61 *)
StmtAllowedHosts(env) ==
    Assign("ALLOWED_HOSTS",
           Returned(ListV(SplitSpace(EnvironGet(env, "ALLOWED_HOSTS", Str(<<"*">>)).s)), 0))

(* line 74 without the _AS_INT transform *)
DatabaseConnMaxAgeUnparsed(env) ==
    Get(env, "DB_CONN_MAX_AGE", Str(<<"3", "0", "0">>))

(* line 74 *)
DatabaseConnMaxAge(env) ==
    EnvironGetAndMap(env, "DB_CONN_MAX_AGE", Str(<<"3", "0", "0">>), "_AS_INT")

(* lines 65-78 *)
StmtDatabase(env, sec) ==
    Dict({
        <<"DATABASE.NAME", Get(env, "DB_NAME", Str(<<"n", "e", "t", "b", "o", "x">>))>>,
        <<"DATABASE.USER", Get(env, "DB_USER", Str(<<>>))>>,
        <<"DATABASE.PASSWORD",
          ReadSecret(sec, "db_password", EnvironGet(env, "DB_PASSWORD", Str(<<>>)))>>,
        <<"DATABASE.HOST", Get(env, "DB_HOST", Str(<<"l", "o", "c", "a", "l", "h", "o", "s", "t">>))>>,
        <<"DATABASE.PORT", Get(env, "DB_PORT", Str(<<>>))>>,
        <<"DATABASE.OPTIONS.sslmode", Get(env, "DB_SSLMODE", Str(<<"p", "r", "e", "f", "e", "r">>))>>,
        <<"DATABASE.CONN_MAX_AGE", DatabaseConnMaxAge(env)>>,
        <<"DATABASE.DISABLE_SERVER_SIDE_CURSORS",
          EnvironGetAndMap(env, "DB_DISABLE_SERVER_SIDE_CURSORS", Str(<<"F", "a", "l", "s", "e">>),
                           "_EQUALS_TRUE")>>})

(* line 96 with the tasks index as the default, as lines 93-98 do for the *)
(* other keys of the caching profile                                      *)
RedisCachingDatabaseInherits(env) ==
    EnvironGetAndMap(env, "REDIS_CACHE_DATABASE",
                     EnvironGet(env, "REDIS_DATABASE", Str(<<"1">>)), "_AS_INT")

(* line 96 *)
RedisCachingDatabase(env) ==
    EnvironGetAndMap(env, "REDIS_CACHE_DATABASE", Str(<<"1">>), "_AS_INT")

(* line 95 with the tasks password of line 87, secret included, as the *)
(* last fallback                                                       *)
RedisCachingPasswordInheritsSecret(env, sec) ==
    ReadSecret(sec, "redis_cache_password",
               EnvironGet(env, "REDIS_CACHE_PASSWORD",
                          ReadSecret(sec, "redis_password",
                                     EnvironGet(env, "REDIS_PASSWORD", Str(<<>>))).v))

(* line 95 *)
RedisCachingPassword(env, sec) ==
    ReadSecret(sec, "redis_cache_password",
               EnvironGet(env, "REDIS_CACHE_PASSWORD",
                          EnvironGet(env, "REDIS_PASSWORD", Str(<<>>))))

(* lines 83-100 *)
StmtRedis(env, sec) ==
    Dict({
        <<"REDIS.tasks.HOST", Get(env, "REDIS_HOST", Str(<<"r", "e", "d", "i", "s">>))>>,
        <<"REDIS.tasks.PORT",
          EnvironGetAndMap(env, "REDIS_PORT", IntV(6379), "_AS_INT")>>,
        <<"REDIS.tasks.PASSWORD",
          ReadSecret(sec, "redis_password",
                     EnvironGet(env, "REDIS_PASSWORD", Str(<<>>)))>>,
        <<"REDIS.tasks.DATABASE",
          EnvironGetAndMap(env, "REDIS_DATABASE", IntV(0), "_AS_INT")>>,
        <<"REDIS.tasks.SSL",
          EnvironGetAndMap(env, "REDIS_SSL", Str(<<"F", "a", "l", "s", "e">>), "_EQUALS_TRUE")>>,
        <<"REDIS.tasks.INSECURE_SKIP_TLS_VERIFY",
          EnvironGetAndMap(env, "REDIS_INSECURE_SKIP_TLS_VERIFY", Str(<<"F", "a", "l", "s", "e">>),
                           "_EQUALS_TRUE")>>,
        <<"REDIS.caching.HOST",
          Get(env, "REDIS_CACHE_HOST", EnvironGet(env, "REDIS_HOST", Str(<<"r", "e", "d", "i", "s">>)))>>,
        <<"REDIS.caching.PORT",
          EnvironGetAndMap(env, "REDIS_CACHE_PORT",
                           EnvironGet(env, "REDIS_PORT", Str(<<"6", "3", "7", "9">>)), "_AS_INT")>>,
        <<"REDIS.caching.PASSWORD", RedisCachingPassword(env, sec)>>,
        <<"REDIS.caching.DATABASE", RedisCachingDatabase(env)>>,
        <<"REDIS.caching.SSL",
          EnvironGetAndMap(env, "REDIS_CACHE_SSL",
                           EnvironGet(env, "REDIS_SSL", Str(<<"F", "a", "l", "s", "e">>)),
                           "_EQUALS_TRUE")>>,
        <<"REDIS.caching.INSECURE_SKIP_TLS_VERIFY",
          EnvironGetAndMap(env, "REDIS_CACHE_INSECURE_SKIP_TLS_VERIFY",
                           EnvironGet(env, "REDIS_INSECURE_SKIP_TLS_VERIFY",
                                      Str(<<"F", "a", "l", "s", "e">>)),
                           "_EQUALS_TRUE")>>})

(* line 106 *)
StmtSecretKey(env, sec) ==
    Assign("SECRET_KEY",
           ReadSecret(sec, "secret_key", EnvironGet(env, "SECRET_KEY", Str(<<>>))))

(* lines 121-123 *)
StmtAllowedUrlSchemes(env) ==
    AssignIfTruthy("ALLOWED_URL_SCHEMES",
                   EnvironGetAndMap(env, "ALLOWED_URL_SCHEMES", None, "_SPLIT_ON_SPACE"))

(* lines 127-134, 227-228, 245-246: if 'X' in environ: X = environ.get('X', None) *)
StmtIfInEnviron(env, name) ==
    IF InEnviron(env, name) THEN Assign(name, Get(env, name, None)) ELSE Ok({})

(* lines 141-143, 233-235, 251-253, 260-262, 279-299:                      *)
(* _X = _environ_get_and_map('X', None, _AS_INT); if _X: X = _X            *)
StmtOptionalInt(env, name) ==
    AssignIfTruthy(name, EnvironGetAndMap(env, name, None, "_AS_INT"))

(* lines 146-147 *)
StmtJobResultRetention(env) ==
    IF InEnviron(env, "JOBRESULT_RETENTION")
    THEN Assign("JOBRESULT_RETENTION",
                EnvironGetAndMap(env, "JOBRESULT_RETENTION", None, "_AS_INT"))
    ELSE Ok({})

(* line 153 *)
StmtCorsOriginWhitelist(env) ==
    Assign("CORS_ORIGIN_WHITELIST",
           EnvironGetAndMap(env, "CORS_ORIGIN_WHITELIST",
                            Str(<<"h", "t", "t", "p", "s", ":", "/", "/", "l", "o", "c", "a", "l", "h", "o", "s", "t">>), "_SPLIT_ON_SPACE"))

(* line 154; a compiled pattern is identified with its pattern string (the *)
(* tokens of the model hold no regular-expression metacharacter)           *)
StmtCorsOriginRegexWhitelist(env) ==
    Assign("CORS_ORIGIN_REGEX_WHITELIST",
           EnvironGetAndMap(env, "CORS_ORIGIN_REGEX_WHITELIST", Str(<<>>),
                            "_SPLIT_ON_SPACE"))

(* lines 159, 215: X = _environ_get_and_map('X', 'False', _EQUALS_TRUE) *)
StmtBoolDefaultFalse(env, name) ==
    Assign(name, EnvironGetAndMap(env, name, Str(<<"F", "a", "l", "s", "e">>), "_EQUALS_TRUE"))

(* lines 167-178 *)
StmtEmail(env, sec) ==
    Dict({
        <<"EMAIL.SERVER", Get(env, "EMAIL_SERVER", Str(<<"l", "o", "c", "a", "l", "h", "o", "s", "t">>))>>,
        <<"EMAIL.PORT", EnvironGetAndMap(env, "EMAIL_PORT", IntV(25), "_AS_INT")>>,
        <<"EMAIL.USERNAME", Get(env, "EMAIL_USERNAME", Str(<<>>))>>,
        <<"EMAIL.PASSWORD",
          ReadSecret(sec, "email_password",
                     EnvironGet(env, "EMAIL_PASSWORD", Str(<<>>)))>>,
        <<"EMAIL.USE_SSL",
          EnvironGetAndMap(env, "EMAIL_USE_SSL", Str(<<"F", "a", "l", "s", "e">>), "_EQUALS_TRUE")>>,
        <<"EMAIL.USE_TLS",
          EnvironGetAndMap(env, "EMAIL_USE_TLS", Str(<<"F", "a", "l", "s", "e">>), "_EQUALS_TRUE")>>,
        <<"EMAIL.SSL_CERTFILE", Get(env, "EMAIL_SSL_CERTFILE", Str(<<>>))>>,
        <<"EMAIL.SSL_KEYFILE", Get(env, "EMAIL_SSL_KEYFILE", Str(<<>>))>>,
        <<"EMAIL.TIMEOUT",
          EnvironGetAndMap(env, "EMAIL_TIMEOUT", IntV(10), "_AS_INT")>>,
        <<"EMAIL.FROM_EMAIL", Get(env, "EMAIL_FROM", Str(<<>>))>>})

(* lines 182-184, 201-203, 222-224:                                        *)
(* _X = _environ_get_and_map('X', None, _EQUALS_TRUE); if _X: X = _X       *)
StmtOptionalBool(env, name) ==
    AssignIfTruthy(name, EnvironGetAndMap(env, name, None, "_EQUALS_TRUE"))

(* lines 188, 306, 331: X = _environ_get_and_map('X', '', _SPLIT_ON_SPACE) *)
StmtListDefaultEmpty(env, name) ==
    Assign(name, EnvironGetAndMap(env, name, Str(<<>>), "_SPLIT_ON_SPACE"))

(* line 198 *)
StmtInternalIps(env) ==
    Assign("INTERNAL_IPS",
           EnvironGetAndMap(env, "INTERNAL_IPS", Str(<<"1", "2", "7", ".", "0", ".", "0", ".", "1", " ", ":", ":", "1">>),
                            "_SPLIT_ON_SPACE"))

(* line 219 *)
StmtLoginTimeout(env) ==
    Assign("LOGIN_TIMEOUT",
           EnvironGetAndMap(env, "LOGIN_TIMEOUT", IntV(1209600), "_AS_INT"))

(* lines 247-248 *)
StmtNapalmPassword(env, sec) ==
    IF InEnviron(env, "NAPALM_PASSWORD")
    THEN Assign("NAPALM_PASSWORD",
                ReadSecret(sec, "napalm_password",
                           EnvironGet(env, "NAPALM_PASSWORD", None)))
    ELSE Ok({})

(* lines 274-276 binding the name of the variable, PREFER_IPV4 *)
StmtPreferIpv4SameName(env) ==
    AssignIfTruthy("PREFER_IPV4",
                   EnvironGetAndMap(env, "PREFER_IPV4", None, "_EQUALS_TRUE"))

(* lines 274-276: the variable is PREFER_IPV4, the name bound is PREFER_IPV *)
StmtPreferIpv4(env) ==
    AssignIfTruthy("PREFER_IPV",
                   EnvironGetAndMap(env, "PREFER_IPV4", None, "_EQUALS_TRUE"))

(* line 319 *)
StmtRqDefaultTimeout(env) ==
    Assign("RQ_DEFAULT_TIMEOUT",
           EnvironGetAndMap(env, "RQ_DEFAULT_TIMEOUT", IntV(300), "_AS_INT"))

(* line 354: environ.get('SESSION_COOKIE_SECURE', 'True').lower() == 'true' *)
StmtSessionCookieSecure(env) ==
    Assign("SESSION_COOKIE_SECURE",
           Returned(BoolV(Lower(EnvironGet(env, "SESSION_COOKIE_SECURE",
                                           Str(<<"T", "r", "u", "e">>)).s) = <<"t", "r", "u", "e">>), 0))

(* line 358 *)
StmtSecureHstsSeconds(env) ==
    Assign("SECURE_HSTS_SECONDS",
           Get(env, "SECURE_HSTS_SECONDS", Str(<<"3", "1", "5", "3", "6", "0", "0", "0">>)))

(* lines 378-383 *)
StmtStorageConfig(env, sec) ==
    Dict({
        <<"STORAGE_CONFIG.AWS_ACCESS_KEY_ID", Get(env, "AWS_S3_ACCESS_KEY_ID", None)>>,
        <<"STORAGE_CONFIG.AWS_SECRET_ACCESS_KEY",
          ReadSecret(sec, "aws_s3_secret_access_key",
                     EnvironGet(env, "AWS_S3_SECRET_ACCESS_KEY", None))>>,
        <<"STORAGE_CONFIG.AWS_STORAGE_BUCKET_NAME",
          Get(env, "AWS_STORAGE_BUCKET_NAME", None)>>,
        <<"STORAGE_CONFIG.AWS_S3_REGION_NAME", Get(env, "AWS_S3_REGION_NAME", None)>>})

----------------------------------------------------------------------------
(* Inputs of the model *)

(* The variables read by lines 61-106 and by the other secret-backed settings *)
RequiredVars ==
    {"ALLOWED_HOSTS", "DB_NAME", "DB_USER", "DB_PASSWORD", "DB_HOST", "DB_PORT",
     "DB_SSLMODE", "DB_CONN_MAX_AGE", "DB_DISABLE_SERVER_SIDE_CURSORS",
     "REDIS_HOST", "REDIS_PORT", "REDIS_PASSWORD", "REDIS_DATABASE", "REDIS_SSL",
     "REDIS_INSECURE_SKIP_TLS_VERIFY", "REDIS_CACHE_HOST", "REDIS_CACHE_PORT",
     "REDIS_CACHE_PASSWORD", "REDIS_CACHE_DATABASE", "REDIS_CACHE_SSL",
     "REDIS_CACHE_INSECURE_SKIP_TLS_VERIFY", "SECRET_KEY", "EMAIL_PASSWORD",
     "NAPALM_PASSWORD", "AWS_S3_SECRET_ACCESS_KEY"}

(* Of these, the variables of the connection parameters and the passwords *)
ConnectionVars ==
    {"DB_NAME", "DB_USER", "DB_PASSWORD", "DB_HOST", "DB_PORT", "DB_SSLMODE",
     "DB_CONN_MAX_AGE", "REDIS_HOST", "REDIS_PASSWORD", "REDIS_DATABASE",
     "REDIS_CACHE_HOST", "REDIS_CACHE_PASSWORD", "REDIS_CACHE_DATABASE",
     "EMAIL_PASSWORD", "NAPALM_PASSWORD", "AWS_S3_SECRET_ACCESS_KEY"}

(* The secrets the settings of these variables read *)
ConnectionSecrets ==
    {"db_password", "redis_password", "redis_cache_password", "email_password",
     "napalm_password", "aws_s3_secret_access_key"}

(* The variables read by the modelled statements of lines 121-383 *)
OptionalVars ==
    {"ALLOWED_URL_SCHEMES", "BANNER_TOP", "BANNER_BOTTOM", "BANNER_LOGIN",
     "CHANGELOG_RETENTION", "JOBRESULT_RETENTION", "CORS_ORIGIN_WHITELIST",
     "CORS_ORIGIN_REGEX_WHITELIST", "DEBUG", "EMAIL_SERVER", "EMAIL_PORT",
     "EMAIL_USERNAME", "EMAIL_USE_SSL", "EMAIL_USE_TLS", "EMAIL_SSL_CERTFILE",
     "EMAIL_SSL_KEYFILE", "EMAIL_TIMEOUT", "EMAIL_FROM", "ENFORCE_GLOBAL_UNIQUE",
     "EXEMPT_VIEW_PERMISSIONS", "INTERNAL_IPS", "GRAPHQL_ENABLED",
     "LOGIN_REQUIRED", "LOGIN_TIMEOUT", "MAINTENANCE_MODE", "MAPS_URL",
     "MAX_PAGE_SIZE", "NAPALM_USERNAME", "NAPALM_TIMEOUT", "PAGINATE_COUNT",
     "PREFER_IPV4", "POWERFEED_DEFAULT_AMPERAGE",
     "POWERFEED_DEFAULT_MAX_UTILIZATION", "POWERFEED_DEFAULT_VOLTAGE",
     "RACK_ELEVATION_DEFAULT_UNIT_HEIGHT", "RACK_ELEVATION_DEFAULT_UNIT_WIDTH",
     "REMOTE_AUTH_DEFAULT_GROUPS", "RQ_DEFAULT_TIMEOUT", "CSRF_TRUSTED_ORIGINS",
     "SESSION_COOKIE_SECURE", "SECURE_HSTS_SECONDS", "AWS_S3_ACCESS_KEY_ID",
     "AWS_STORAGE_BUCKET_NAME", "AWS_S3_REGION_NAME"}

EnvVars == RequiredVars \cup OptionalVars

SecretNames ==
    {"db_password", "redis_password", "redis_cache_password", "secret_key",
     "email_password", "napalm_password", "aws_s3_secret_access_key"}

(* The variables whose value the code parses as an integer, a boolean or a list *)
IntVars ==
    {"DB_CONN_MAX_AGE", "REDIS_PORT", "REDIS_DATABASE", "REDIS_CACHE_PORT",
     "REDIS_CACHE_DATABASE", "CHANGELOG_RETENTION", "JOBRESULT_RETENTION",
     "EMAIL_PORT", "EMAIL_TIMEOUT", "LOGIN_TIMEOUT", "MAX_PAGE_SIZE",
     "NAPALM_TIMEOUT", "PAGINATE_COUNT", "POWERFEED_DEFAULT_AMPERAGE",
     "POWERFEED_DEFAULT_MAX_UTILIZATION", "POWERFEED_DEFAULT_VOLTAGE",
     "RACK_ELEVATION_DEFAULT_UNIT_HEIGHT", "RACK_ELEVATION_DEFAULT_UNIT_WIDTH",
     "RQ_DEFAULT_TIMEOUT", "SECURE_HSTS_SECONDS"}

BoolVars ==
    {"DB_DISABLE_SERVER_SIDE_CURSORS", "REDIS_SSL", "REDIS_INSECURE_SKIP_TLS_VERIFY",
     "REDIS_CACHE_SSL", "REDIS_CACHE_INSECURE_SKIP_TLS_VERIFY", "DEBUG",
     "EMAIL_USE_SSL", "EMAIL_USE_TLS", "ENFORCE_GLOBAL_UNIQUE", "GRAPHQL_ENABLED",
     "LOGIN_REQUIRED", "MAINTENANCE_MODE", "PREFER_IPV4", "SESSION_COOKIE_SECURE"}

ListVars ==
    {"ALLOWED_HOSTS", "ALLOWED_URL_SCHEMES", "CORS_ORIGIN_WHITELIST",
     "CORS_ORIGIN_REGEX_WHITELIST", "EXEMPT_VIEW_PERMISSIONS", "INTERNAL_IPS",
     "REMOTE_AUTH_DEFAULT_GROUPS", "CSRF_TRUSTED_ORIGINS"}

(* The values a variable of each kind takes in the model *)
IntInputs == {<<"7">>, <<"0">>, <<"x">>, <<>>}

BoolInputs == {<<"T", "r", "U", "e">>, <<"n", "o">>, <<>>}

ListInputs == {<<"a", " ", " ", "b">>, <<" ", "a", " ">>, <<>>}

StrInputs == {<<"x">>, <<>>}

InputsOf(var) ==
    IF var \in IntVars THEN IntInputs
    ELSE IF var \in BoolVars THEN BoolInputs
    ELSE IF var \in ListVars THEN ListInputs
    ELSE StrInputs

(* The secret files of the model *)
FileInputs ==
    {File(<<"s", "\n">>), File(<<>>), [st |-> "undecodable", data |-> <<>>],
     [st |-> "denied", data |-> <<>>]}

(* At most MaxEnvVars variables are set and at most MaxSecretFiles secret  *)
(* files exist                                                             *)
MaxEnvVars == 1

MaxSecretFiles == 1

RECURSIVE SubsetsUpTo(_, _)
SubsetsUpTo(U, k) ==
    IF k = 0 THEN {{}}
    ELSE LET smaller == SubsetsUpTo(U, k - 1)
         IN  smaller \cup {S \cup {v} : S \in smaller, v \in U}

AllInputs == IntInputs \cup BoolInputs \cup ListInputs \cup StrInputs

(* The environments that set at most MaxEnvVars of the variables of free *)
Environments(free) ==
    UNION {{[v \in EnvVars |-> IF v \in S THEN Str(f[v]) ELSE Absent] :
               f \in {g \in [S -> AllInputs] : \A v \in S : g[v] \in InputsOf(v)}} :
           S \in SubsetsUpTo(free, MaxEnvVars)}

(* The /run/secrets directories that hold at most MaxSecretFiles of the   *)
(* secrets of free, each one of files                                      *)
SecretDirs(free, files) ==
    UNION {{[n \in SecretNames |-> IF n \in S THEN f[n] ELSE NoFile] :
               f \in [S -> files]} :
           S \in SubsetsUpTo(free, MaxSecretFiles)}

----------------------------------------------------------------------------
(* The import of the module *)

SettingNames ==
    {"ALLOWED_HOSTS", "DATABASE.NAME", "DATABASE.USER", "DATABASE.PASSWORD",
     "DATABASE.HOST", "DATABASE.PORT", "DATABASE.OPTIONS.sslmode",
     "DATABASE.CONN_MAX_AGE", "DATABASE.DISABLE_SERVER_SIDE_CURSORS",
     "REDIS.tasks.HOST", "REDIS.tasks.PORT", "REDIS.tasks.PASSWORD",
     "REDIS.tasks.DATABASE", "REDIS.tasks.SSL",
     "REDIS.tasks.INSECURE_SKIP_TLS_VERIFY", "REDIS.caching.HOST",
     "REDIS.caching.PORT", "REDIS.caching.PASSWORD", "REDIS.caching.DATABASE",
     "REDIS.caching.SSL", "REDIS.caching.INSECURE_SKIP_TLS_VERIFY", "SECRET_KEY",
     "ALLOWED_URL_SCHEMES", "BANNER_TOP", "BANNER_BOTTOM", "BANNER_LOGIN",
     "CHANGELOG_RETENTION", "JOBRESULT_RETENTION", "CORS_ORIGIN_WHITELIST",
     "CORS_ORIGIN_REGEX_WHITELIST", "DEBUG", "EMAIL.SERVER", "EMAIL.PORT",
     "EMAIL.USERNAME", "EMAIL.PASSWORD", "EMAIL.USE_SSL", "EMAIL.USE_TLS",
     "EMAIL.SSL_CERTFILE", "EMAIL.SSL_KEYFILE", "EMAIL.TIMEOUT",
     "EMAIL.FROM_EMAIL", "ENFORCE_GLOBAL_UNIQUE", "EXEMPT_VIEW_PERMISSIONS",
     "INTERNAL_IPS", "GRAPHQL_ENABLED", "LOGIN_REQUIRED", "LOGIN_TIMEOUT",
     "MAINTENANCE_MODE", "MAPS_URL", "MAX_PAGE_SIZE", "NAPALM_USERNAME",
     "NAPALM_PASSWORD", "NAPALM_TIMEOUT", "PAGINATE_COUNT", "PREFER_IPV",
     "PREFER_IPV4", "POWERFEED_DEFAULT_AMPERAGE",
     "POWERFEED_DEFAULT_MAX_UTILIZATION", "POWERFEED_DEFAULT_VOLTAGE",
     "RACK_ELEVATION_DEFAULT_UNIT_HEIGHT", "RACK_ELEVATION_DEFAULT_UNIT_WIDTH",
     "REMOTE_AUTH_DEFAULT_GROUPS", "RQ_DEFAULT_TIMEOUT", "CSRF_TRUSTED_ORIGINS",
     "SESSION_COOKIE_SECURE", "SECURE_HSTS_SECONDS",
     "STORAGE_CONFIG.AWS_ACCESS_KEY_ID", "STORAGE_CONFIG.AWS_SECRET_ACCESS_KEY",
     "STORAGE_CONFIG.AWS_STORAGE_BUCKET_NAME", "STORAGE_CONFIG.AWS_S3_REGION_NAME"}

(* Binding the names of binds in the namespace ns *)
Bind(ns, binds) ==
    [n \in SettingNames |->
        IF \E p \in binds : p[1] = n
        THEN (CHOOSE p \in binds : p[1] = n)[2]
        ELSE ns[n]]

(* Executing statements in order: the first one that raises ends the run, *)
(* the names bound before it stay bound                                    *)
RECURSIVE RunStatements(_, _)
RunStatements(stmts, binds) ==
    IF stmts = <<>> THEN [raised |-> FALSE, binds |-> binds]
    ELSE IF Head(stmts).raised THEN [raised |-> TRUE, binds |-> binds]
    ELSE RunStatements(Tail(stmts), binds \cup Head(stmts).binds)

(* A run of consecutive statements of the module body, from position at *)
Run(at, next, stmts) ==
    /\ pc = at
    /\ LET r == RunStatements(stmts, {})
       IN  /\ settings' = Bind(settings, r.binds)
           /\ pc' = IF r.raised THEN "failed" ELSE next
    /\ UNCHANGED <<environ, secrets, call, ret>>

(* lines 61-106 *)
ResolveRequired ==
    Run("required", "banners",
        <<StmtAllowedHosts(environ), StmtDatabase(environ, secrets),
          StmtRedis(environ, secrets), StmtSecretKey(environ, secrets)>>)

(* lines 121-147 *)
ResolveBanners ==
    Run("banners", "cors",
        <<StmtAllowedUrlSchemes(environ), StmtIfInEnviron(environ, "BANNER_TOP"),
          StmtIfInEnviron(environ, "BANNER_BOTTOM"),
          StmtIfInEnviron(environ, "BANNER_LOGIN"),
          StmtOptionalInt(environ, "CHANGELOG_RETENTION"),
          StmtJobResultRetention(environ)>>)

(* lines 152-203 *)
ResolveCors ==
    Run("cors", "login",
        <<StmtCorsOriginWhitelist(environ), StmtCorsOriginRegexWhitelist(environ),
          StmtBoolDefaultFalse(environ, "DEBUG"), StmtEmail(environ, secrets),
          StmtOptionalBool(environ, "ENFORCE_GLOBAL_UNIQUE"),
          StmtListDefaultEmpty(environ, "EXEMPT_VIEW_PERMISSIONS"),
          StmtInternalIps(environ), StmtOptionalBool(environ, "GRAPHQL_ENABLED")>>)

(* lines 211-262 *)
ResolveLogin ==
    Run("login", "power",
        <<StmtBoolDefaultFalse(environ, "LOGIN_REQUIRED"), StmtLoginTimeout(environ),
          StmtOptionalBool(environ, "MAINTENANCE_MODE"),
          StmtIfInEnviron(environ, "MAPS_URL"),
          StmtOptionalInt(environ, "MAX_PAGE_SIZE"),
          StmtIfInEnviron(environ, "NAPALM_USERNAME"),
          StmtNapalmPassword(environ, secrets),
          StmtOptionalInt(environ, "NAPALM_TIMEOUT"),
          StmtOptionalInt(environ, "PAGINATE_COUNT")>>)

(* lines 274-331 *)
ResolvePower ==
    Run("power", "security",
        <<StmtPreferIpv4(environ),
          StmtOptionalInt(environ, "POWERFEED_DEFAULT_AMPERAGE"),
          StmtOptionalInt(environ, "POWERFEED_DEFAULT_MAX_UTILIZATION"),
          StmtOptionalInt(environ, "POWERFEED_DEFAULT_VOLTAGE"),
          StmtOptionalInt(environ, "RACK_ELEVATION_DEFAULT_UNIT_HEIGHT"),
          StmtOptionalInt(environ, "RACK_ELEVATION_DEFAULT_UNIT_WIDTH"),
          StmtListDefaultEmpty(environ, "REMOTE_AUTH_DEFAULT_GROUPS"),
          StmtRqDefaultTimeout(environ),
          StmtListDefaultEmpty(environ, "CSRF_TRUSTED_ORIGINS")>>)

(* lines 354-383 *)
ResolveSecurity ==
    Run("security", "done",
        <<StmtSessionCookieSecure(environ), StmtSecureHstsSeconds(environ),
          StmtStorageConfig(environ, secrets)>>)

NoCall == [fn |-> "none", name |-> "", default |-> None, map_fn |-> "none"]

NoRet == [state |-> "none", raised |-> FALSE, v |-> None, calls |-> 0]

(* The state when the import starts: nothing is bound yet *)
InitImport(envs, dirs) ==
    /\ environ \in envs
    /\ secrets \in dirs
    /\ settings = [n \in SettingNames |-> Absent]
    /\ pc = "required"
    /\ call = NoCall
    /\ ret = NoRet

(* Any one deployment: a few variables set, a few secret files mounted *)
Init == InitImport(Environments(EnvVars), SecretDirs(SecretNames, FileInputs))

(* Deployments that configure the connections: their variables, and their *)
(* secrets as one-line files                                               *)
InitConnections ==
    InitImport(Environments(ConnectionVars),
               SecretDirs(ConnectionSecrets, {File(<<"s", "\n">>)}))

Next ==
    \/ ResolveRequired
    \/ ResolveBanners
    \/ ResolveCors
    \/ ResolveLogin
    \/ ResolvePower
    \/ ResolveSecurity

Spec == Init /\ [][Next]_vars

SpecConnections == InitConnections /\ [][Next]_vars

(* Deployments that set feature flags only *)
FlagVars ==
    {"PREFER_IPV4", "ENFORCE_GLOBAL_UNIQUE", "GRAPHQL_ENABLED", "MAINTENANCE_MODE",
     "DEBUG", "LOGIN_REQUIRED"}

InitFlags == InitImport(Environments(FlagVars), SecretDirs({}, FileInputs))

SpecFlags == InitFlags /\ [][Next]_vars

(* Deployments that configure the two Redis profiles: at most MaxRedisVars *)
(* of their variables are set, and their password secrets are any files    *)
RedisVars ==
    {"REDIS_HOST", "REDIS_PORT", "REDIS_PASSWORD", "REDIS_SSL",
     "REDIS_INSECURE_SKIP_TLS_VERIFY", "REDIS_CACHE_HOST", "REDIS_CACHE_PORT",
     "REDIS_CACHE_PASSWORD", "REDIS_CACHE_SSL",
     "REDIS_CACHE_INSECURE_SKIP_TLS_VERIFY"}

RedisSecrets == {"redis_password", "redis_cache_password"}

MaxRedisVars == 2

RedisEnvironments ==
    UNION {{[v \in EnvVars |-> IF v \in S THEN Str(f[v]) ELSE Absent] :
               f \in {g \in [S -> AllInputs] : \A v \in S : g[v] \in InputsOf(v)}} :
           S \in SubsetsUpTo(RedisVars, MaxRedisVars)}

InitRedis == InitImport(RedisEnvironments, SecretDirs(RedisSecrets, FileInputs))

SpecRedis == InitRedis /\ [][Next]_vars

----------------------------------------------------------------------------
(* The helper functions called on their own *)

RECURSIVE SeqsUpTo(_, _)
SeqsUpTo(A, n) ==
    IF n = 0 THEN {<<>>}
    ELSE LET shorter == SeqsUpTo(A, n - 1)
         IN  shorter \cup {Append(x, a) : x \in shorter, a \in A}

(* The text of a secret file is at most MaxFileLen characters long *)
MaxFileLen == 3

FileStates ==
    {File(d) : d \in SeqsUpTo({"s", " ", "\n"}, MaxFileLen)}
        \cup {NoFile, [st |-> "denied", data |-> <<>>],
              [st |-> "undecodable", data |-> <<>>]}

Outcome(o) ==
    [state |-> IF o.raised THEN "raised" ELSE "returned", raised |-> o.raised,
     v |-> o.v, calls |-> o.calls]

(* A call _read_secret(call.name, call.default) *)
InitReadSecret ==
    /\ environ = [v \in EnvVars |-> Absent]
    /\ call \in [fn : {"_read_secret"}, name : SecretNames,
                 default : {None, Str(<<>>), Str(<<"d">>)}, map_fn : {"none"}]
    /\ \E f \in FileStates :
          secrets = [n \in SecretNames |-> IF n = call.name THEN f ELSE NoFile]
    /\ settings = [n \in SettingNames |-> Absent]
    /\ pc = "call"
    /\ ret = NoRet

CallReadSecret ==
    /\ pc = "call"
    /\ call.fn = "_read_secret"
    /\ ret' = Outcome(ReadSecret(secrets, call.name, call.default))
    /\ pc' = "returned"
    /\ UNCHANGED <<environ, secrets, settings, call>>

SpecReadSecret == InitReadSecret /\ [][CallReadSecret]_vars

(* A call _environ_get_and_map(call.name, call.default, call.map_fn) *)
MapVars == {"BANNER_TOP", "DEBUG", "EMAIL_PORT", "INTERNAL_IPS"}

InitEnvironGetAndMap ==
    /\ environ \in Environments(MapVars)
    /\ secrets = [n \in SecretNames |-> NoFile]
    /\ call \in [fn : {"_environ_get_and_map"}, name : MapVars,
                 default : {None, Str(<<>>), Str(<<"7">>), Str(<<"T", "r", "u", "e">>),
                            IntV(0), IntV(6379)},
                 map_fn : {"none", "_EQUALS_TRUE", "_AS_INT", "_SPLIT_ON_SPACE"}]
    /\ settings = [n \in SettingNames |-> Absent]
    /\ pc = "call"
    /\ ret = NoRet

CallEnvironGetAndMap ==
    /\ pc = "call"
    /\ call.fn = "_environ_get_and_map"
    /\ ret' = Outcome(EnvironGetAndMap(environ, call.name, call.default, call.map_fn))
    /\ pc' = "returned"
    /\ UNCHANGED <<environ, secrets, settings, call>>

SpecEnvironGetAndMap == InitEnvironGetAndMap /\ [][CallEnvironGetAndMap]_vars

----------------------------------------------------------------------------
(* Properties *)

Prefixes(data) == {SubSeq(data, 1, k) : k \in 0..Len(data)}

(* line is the first line of data: all of it when it holds no newline,     *)
(* else its prefix that ends at the first newline                          *)
IsFirstLine(line, data) ==
    /\ Len(line) <= Len(data)
    /\ line = SubSeq(data, 1, Len(line))
    /\ \A i \in 1..(Len(line) - 1) : line[i] # "\n"
    /\ \/ line # <<>> /\ line[Len(line)] = "\n"
       \/ line = data /\ \A i \in DOMAIN data : data[i] # "\n"

(* r is line without the whitespace at its end (and, when both, without    *)
(* the whitespace at its start)                                            *)
IsStripped(r, line, both) ==
    \E a, b \in 0..Len(line) :
        /\ a + Len(r) + b = Len(line)
        /\ ~both => a = 0
        /\ r = SubSeq(line, a + 1, a + Len(r))
        /\ \A i \in 1..a : line[i] \in Whitespace
        /\ \A i \in (Len(line) - b + 1)..Len(line) : line[i] \in Whitespace
        /\ r # <<>> => r[Len(r)] \notin Whitespace
        /\ both /\ r # <<>> => r[1] \notin Whitespace

SecretFile == secrets[call.name]

ReadSecretReturned == pc = "returned" /\ call.fn = "_read_secret"

EnvironGetAndMapReturned == pc = "returned" /\ call.fn = "_environ_get_and_map"

(* The raw value: the variable's value if set, else the default *)
RawValue == IF environ[call.name] # Absent THEN environ[call.name] ELSE call.default

(* What each transform yields on a string *)
IsTrueAnyCase(s) ==
    /\ Len(s) = 4
    /\ s[1] \in {"t", "T"}
    /\ s[2] \in {"r", "R"}
    /\ s[3] \in {"u", "U"}
    /\ s[4] \in {"e", "E"}

(* C7: _environ_get_and_map returns None without invoking map_fn when the  *)
(* raw value is None; otherwise it returns the raw value unchanged when no *)
(* map_fn was supplied and map_fn(raw) when one was, invoking map_fn       *)
(* exactly once, the empty string included.                                *)
C7_EnvironGetAndMapContract ==
    EnvironGetAndMapReturned =>
        /\ RawValue = None =>
              ret.state = "returned" /\ ret.v = None /\ ret.calls = 0
        /\ RawValue # None /\ call.map_fn = "none" =>
              ret.state = "returned" /\ ret.v = RawValue /\ ret.calls = 0
        /\ RawValue # None /\ call.map_fn # "none" =>
              /\ ret.calls = 1
              /\ ret = Outcome(MapFn(call.map_fn, RawValue))
        /\ RawValue.t = "str" /\ call.map_fn = "_EQUALS_TRUE" =>
              ret.v = BoolV(IsTrueAnyCase(RawValue.s))
        /\ RawValue = Str(<<>>) /\ call.map_fn = "_SPLIT_ON_SPACE" =>
              ret.v = ListV(<<>>)
        /\ RawValue = Str(<<>>) /\ call.map_fn = "_AS_INT" => ret.state = "raised"

(* C7 witness: the variable is set to the empty string and map_fn was      *)
(* still invoked on it                                                     *)
C7_Witness ==
    /\ EnvironGetAndMapReturned
    /\ environ[call.name] = Str(<<>>)
    /\ call.default = None
    /\ call.map_fn = "_SPLIT_ON_SPACE"
    /\ ret.state = "returned"
    /\ ret.v = ListV(<<>>)
    /\ ret.calls = 1

----------------------------------------------------------------------------
(* Properties of the import *)

Bound(name) == settings[name] # Absent

EnvSet(var) == environ[var] # Absent

NoSecretFile(name) == secrets[name].st = "missing"

(* The variable's value if it is set, else the given value *)
EnvOr(var, value) == IF EnvSet(var) THEN environ[var] ELSE value

NoInputs ==
    /\ \A v \in EnvVars : ~EnvSet(v)
    /\ \A n \in SecretNames : NoSecretFile(n)

(* C9: with neither REDIS_DATABASE nor REDIS_CACHE_DATABASE set the tasks  *)
(* profile gets database 0 and the caching profile database 1 (integers),  *)
(* and the caching index depends on REDIS_CACHE_DATABASE alone: setting    *)
(* REDIS_DATABASE never changes it.                                        *)
C9_RedisDatabaseIndexes ==
    /\ pc = "done" => Bound("REDIS.tasks.DATABASE") /\ Bound("REDIS.caching.DATABASE")
    /\ Bound("REDIS.tasks.DATABASE") /\ ~EnvSet("REDIS_DATABASE") =>
          settings["REDIS.tasks.DATABASE"] = IntV(0)
    /\ Bound("REDIS.caching.DATABASE") /\ ~EnvSet("REDIS_CACHE_DATABASE") =>
          settings["REDIS.caching.DATABASE"] = IntV(1)

(* C9 witness: REDIS_DATABASE alone is set, the tasks index follows it and *)
(* the caching index stays 1                                               *)
C9_Witness ==
    /\ environ["REDIS_DATABASE"] = Str(<<"7">>)
    /\ ~EnvSet("REDIS_CACHE_DATABASE")
    /\ settings["REDIS.tasks.DATABASE"] = IntV(7)
    /\ settings["REDIS.caching.DATABASE"] = IntV(1)

(* C10: with no environment variable set and no secret file present the    *)
(* import binds DATABASE to NAME "netbox", USER "", PASSWORD "", HOST      *)
(* "localhost", PORT "", OPTIONS.sslmode "prefer", CONN_MAX_AGE 300 (an    *)
(* integer) and DISABLE_SERVER_SIDE_CURSORS false.                         *)
C10_DatabaseDefaults ==
    NoInputs /\ pc # "required" =>
        /\ pc # "failed"
        /\ settings["DATABASE.NAME"] = Str(<<"n", "e", "t", "b", "o", "x">>)
        /\ settings["DATABASE.USER"] = Str(<<>>)
        /\ settings["DATABASE.PASSWORD"] = Str(<<>>)
        /\ settings["DATABASE.HOST"] = Str(<<"l", "o", "c", "a", "l", "h", "o", "s", "t">>)
        /\ settings["DATABASE.PORT"] = Str(<<>>)
        /\ settings["DATABASE.OPTIONS.sslmode"] = Str(<<"p", "r", "e", "f", "e", "r">>)
        /\ settings["DATABASE.CONN_MAX_AGE"] = IntV(300)
        /\ settings["DATABASE.DISABLE_SERVER_SIDE_CURSORS"] = BoolV(FALSE)

(* C10 witness: the import of a bare deployment has bound DATABASE *)
C10_Witness ==
    /\ NoInputs
    /\ pc = "done"
    /\ settings["DATABASE.NAME"] = Str(<<"n", "e", "t", "b", "o", "x">>)
    /\ settings["DATABASE.CONN_MAX_AGE"] = IntV(300)

(* The plain settings of DATABASE, REDIS.tasks: setting, variable, default *)
PlainSettings ==
    {<<"DATABASE.NAME", "DB_NAME", Str(<<"n", "e", "t", "b", "o", "x">>)>>,
     <<"DATABASE.USER", "DB_USER", Str(<<>>)>>,
     <<"DATABASE.HOST", "DB_HOST", Str(<<"l", "o", "c", "a", "l", "h", "o", "s", "t">>)>>,
     <<"DATABASE.PORT", "DB_PORT", Str(<<>>)>>,
     <<"DATABASE.OPTIONS.sslmode", "DB_SSLMODE", Str(<<"p", "r", "e", "f", "e", "r">>)>>,
     <<"REDIS.tasks.HOST", "REDIS_HOST", Str(<<"r", "e", "d", "i", "s">>)>>}

(* The secret-backed settings bound by a dict display or an assignment:    *)
(* setting, secret, variable, default                                      *)
SecretSettings ==
    {<<"DATABASE.PASSWORD", "db_password", "DB_PASSWORD", Str(<<>>)>>,
     <<"REDIS.tasks.PASSWORD", "redis_password", "REDIS_PASSWORD", Str(<<>>)>>,
     <<"EMAIL.PASSWORD", "email_password", "EMAIL_PASSWORD", Str(<<>>)>>,
     <<"STORAGE_CONFIG.AWS_SECRET_ACCESS_KEY", "aws_s3_secret_access_key",
       "AWS_S3_SECRET_ACCESS_KEY", None>>}

(* C6, as claimed: without a secret file every secret-backed setting is    *)
(* its variable's value if set, else its hardcoded default; every plain    *)
(* setting likewise.                                                       *)
C6_EnvThenHardcodedDefault ==
    /\ \A x \in SecretSettings \cup
                {<<"REDIS.caching.PASSWORD", "redis_cache_password",
                   "REDIS_CACHE_PASSWORD", Str(<<>>)>>} :
          Bound(x[1]) /\ NoSecretFile(x[2]) => settings[x[1]] = EnvOr(x[3], x[4])
    /\ pc = "done" /\ NoSecretFile("napalm_password") =>
          settings["NAPALM_PASSWORD"] = EnvOr("NAPALM_PASSWORD", None)
    /\ \A x \in PlainSettings \cup
                {<<"REDIS.caching.HOST", "REDIS_CACHE_HOST", Str(<<"r", "e", "d", "i", "s">>)>>} :
          Bound(x[1]) => settings[x[1]] = EnvOr(x[2], x[3])

(* C6, amended: without a secret file a secret-backed setting is its       *)
(* variable's value if set; if not, DATABASE.PASSWORD, REDIS.tasks.PASSWORD *)
(* and EMAIL.PASSWORD are "", STORAGE_CONFIG.AWS_SECRET_ACCESS_KEY is None, *)
(* REDIS.caching.PASSWORD is REDIS_PASSWORD's value if that is set and ""  *)
(* if not, and NAPALM_PASSWORD is left unbound.  A plain setting is its    *)
(* variable's value if set, else its hardcoded default, REDIS.caching.HOST *)
(* falling back to REDIS_HOST before "redis".                              *)
C6_EnvThenFallbackChain ==
    /\ \A x \in SecretSettings :
          /\ pc = "done" => Bound(x[1])
          /\ Bound(x[1]) /\ NoSecretFile(x[2]) => settings[x[1]] = EnvOr(x[3], x[4])
    /\ Bound("REDIS.caching.PASSWORD") /\ NoSecretFile("redis_cache_password") =>
          settings["REDIS.caching.PASSWORD"] =
              EnvOr("REDIS_CACHE_PASSWORD", EnvOr("REDIS_PASSWORD", Str(<<>>)))
    /\ NoSecretFile("napalm_password") =>
          /\ ~EnvSet("NAPALM_PASSWORD") => ~Bound("NAPALM_PASSWORD")
          /\ EnvSet("NAPALM_PASSWORD") /\ pc = "done" =>
                settings["NAPALM_PASSWORD"] = environ["NAPALM_PASSWORD"]
    /\ \A x \in PlainSettings :
          /\ pc = "done" => Bound(x[1])
          /\ Bound(x[1]) => settings[x[1]] = EnvOr(x[2], x[3])
    /\ Bound("REDIS.caching.HOST") =>
          settings["REDIS.caching.HOST"] =
              EnvOr("REDIS_CACHE_HOST", EnvOr("REDIS_HOST", Str(<<"r", "e", "d", "i", "s">>)))

(* C6 witness: no secret file, DB_PASSWORD is set and became the password, *)
(* while the unset DB_HOST left the host at its default                    *)
C6_Witness ==
    /\ NoSecretFile("db_password")
    /\ environ["DB_PASSWORD"] = Str(<<"x">>)
    /\ settings["DATABASE.PASSWORD"] = Str(<<"x">>)
    /\ ~NoSecretFile("email_password")
    /\ ~EnvSet("DB_HOST")
    /\ settings["DATABASE.HOST"] = Str(<<"l", "o", "c", "a", "l", "h", "o", "s", "t">>)

(* r is line without the newline at its end, if it has one *)
IsNewlineStripped(r, line) ==
    IF line # <<>> /\ line[Len(line)] = "\n"
    THEN r = SubSeq(line, 1, Len(line) - 1)
    ELSE r = line

(* The value is the first line of the secret's file, newline stripped *)
IsSecretOf(value, name) ==
    /\ value.t = "str"
    /\ \E line \in Prefixes(secrets[name].data) :
          /\ IsFirstLine(line, secrets[name].data)
          /\ IsNewlineStripped(value.s, line)

HasSecret(name) == secrets[name].st = "ok" /\ secrets[name].data # <<>>

(* C1, as claimed: a secret file that exists and is not empty decides the  *)
(* setting (its first line, newline stripped), whatever the variable is,   *)
(* set or not: DATABASE.PASSWORD, REDIS.tasks.PASSWORD,                    *)
(* REDIS.caching.PASSWORD, EMAIL.PASSWORD, AWS_SECRET_ACCESS_KEY as soon   *)
(* as they are bound, NAPALM_PASSWORD at the end of the import.            *)
C1_SecretTakesPrecedence ==
    /\ \A x \in SecretSettings \cup
                {<<"REDIS.caching.PASSWORD", "redis_cache_password",
                   "REDIS_CACHE_PASSWORD", Str(<<>>)>>} :
          Bound(x[1]) /\ HasSecret(x[2]) => IsSecretOf(settings[x[1]], x[2])
    /\ pc = "done" /\ HasSecret("napalm_password") =>
          IsSecretOf(settings["NAPALM_PASSWORD"], "napalm_password")

(* The conditional settings; each is named like its variable *)
ConditionalSettings ==
    {"ALLOWED_URL_SCHEMES", "BANNER_TOP", "BANNER_BOTTOM", "BANNER_LOGIN",
     "CHANGELOG_RETENTION", "JOBRESULT_RETENTION", "ENFORCE_GLOBAL_UNIQUE",
     "GRAPHQL_ENABLED", "MAINTENANCE_MODE", "MAPS_URL", "MAX_PAGE_SIZE",
     "NAPALM_USERNAME", "NAPALM_TIMEOUT", "PAGINATE_COUNT",
     "POWERFEED_DEFAULT_AMPERAGE", "POWERFEED_DEFAULT_MAX_UTILIZATION",
     "POWERFEED_DEFAULT_VOLTAGE", "RACK_ELEVATION_DEFAULT_UNIT_HEIGHT",
     "RACK_ELEVATION_DEFAULT_UNIT_WIDTH"}

(* The tokens of a string: its maximal runs of characters other than space *)
IsTokenList(l, s) ==
    /\ \A i \in DOMAIN l : l[i] # <<>> /\ \A j \in DOMAIN l[i] : l[i][j] # " "
    /\ \E start \in [DOMAIN l -> 1..(Len(s) + 1)] :
          /\ \A i \in DOMAIN l : l[i] = SubSeq(s, start[i], start[i] + Len(l[i]) - 1)
          /\ \A i \in DOMAIN l : start[i] = 1 \/ s[start[i] - 1] = " "
          /\ \A i \in DOMAIN l :
                start[i] + Len(l[i]) = Len(s) + 1 \/ s[start[i] + Len(l[i])] = " "
          /\ \A i \in 1..(Len(l) - 1) : start[i] < start[i + 1]
    /\ Len(l) = Cardinality({i \in DOMAIN s :
                                s[i] # " " /\ (i = 1 \/ s[i - 1] = " ")})

(* The typed value of a string: digits as an integer, a flag as a boolean, *)
(* a list as its tokens                                                    *)
IsValueOf(value, var, s) ==
    IF var \in IntVars
    THEN value.t = "int" /\ s # <<>> /\ (\A i \in DOMAIN s : IsDigit(s[i]))
         /\ value.n = DigitsValue(s, 0)
    ELSE IF var \in BoolVars THEN value = BoolV(IsTrueAnyCase(s))
    ELSE IF var \in ListVars THEN value.t = "list" /\ IsTokenList(value.l, s)
    ELSE value = Str(s)

(* C2, as claimed: at the end of the import a conditional setting is bound *)
(* exactly when its variable is set, and then to the variable's value,     *)
(* an empty, zero or false one included.                                   *)
C2_BoundIffVariableSet ==
    pc = "done" =>
        \A x \in ConditionalSettings :
            /\ Bound(x) <=> EnvSet(x)
            /\ EnvSet(x) => IsValueOf(settings[x], x, environ[x].s)

(* The list-valued settings: setting, variable, default *)
ListSettings ==
    {<<"ALLOWED_HOSTS", "ALLOWED_HOSTS", <<"*">>>>,
     <<"ALLOWED_URL_SCHEMES", "ALLOWED_URL_SCHEMES", <<>>>>,
     <<"CORS_ORIGIN_WHITELIST", "CORS_ORIGIN_WHITELIST", <<"h", "t", "t", "p", "s", ":", "/", "/", "l", "o", "c", "a", "l", "h", "o", "s", "t">>>>,
     <<"CORS_ORIGIN_REGEX_WHITELIST", "CORS_ORIGIN_REGEX_WHITELIST", <<>>>>,
     <<"EXEMPT_VIEW_PERMISSIONS", "EXEMPT_VIEW_PERMISSIONS", <<>>>>,
     <<"INTERNAL_IPS", "INTERNAL_IPS", <<"1", "2", "7", ".", "0", ".", "0", ".", "1", " ", ":", ":", "1">>>>,
     <<"REMOTE_AUTH_DEFAULT_GROUPS", "REMOTE_AUTH_DEFAULT_GROUPS", <<>>>>,
     <<"CSRF_TRUSTED_ORIGINS", "CSRF_TRUSTED_ORIGINS", <<>>>>}

(* C3, as claimed: a list-valued setting, once bound, is the list of the   *)
(* tokens of its input in order, and holds no empty token.                 *)
C3_ListOfTokens ==
    \A x \in ListSettings :
        Bound(x[1]) =>
            /\ settings[x[1]].t = "list"
            /\ \A i \in DOMAIN settings[x[1]].l : settings[x[1]].l[i] # <<>>
            /\ IsTokenList(settings[x[1]].l, EnvOr(x[2], Str(x[3])).s)

(* The boolean-valued settings: setting, variable *)
BoolSettings ==
    {<<"DATABASE.DISABLE_SERVER_SIDE_CURSORS", "DB_DISABLE_SERVER_SIDE_CURSORS">>,
     <<"REDIS.tasks.SSL", "REDIS_SSL">>,
     <<"REDIS.tasks.INSECURE_SKIP_TLS_VERIFY", "REDIS_INSECURE_SKIP_TLS_VERIFY">>,
     <<"REDIS.caching.SSL", "REDIS_CACHE_SSL">>,
     <<"REDIS.caching.INSECURE_SKIP_TLS_VERIFY",
       "REDIS_CACHE_INSECURE_SKIP_TLS_VERIFY">>,
     <<"DEBUG", "DEBUG">>, <<"EMAIL.USE_SSL", "EMAIL_USE_SSL">>,
     <<"EMAIL.USE_TLS", "EMAIL_USE_TLS">>, <<"LOGIN_REQUIRED", "LOGIN_REQUIRED">>,
     <<"SESSION_COOKIE_SECURE", "SESSION_COOKIE_SECURE">>,
     <<"ENFORCE_GLOBAL_UNIQUE", "ENFORCE_GLOBAL_UNIQUE">>,
     <<"GRAPHQL_ENABLED", "GRAPHQL_ENABLED">>,
     <<"MAINTENANCE_MODE", "MAINTENANCE_MODE">>, <<"PREFER_IPV", "PREFER_IPV4">>}

(* C4, as claimed: at the end of the import a boolean-valued setting whose *)
(* variable is set is true if the variable is "true" in any letter case    *)
(* and false for any other string.  (The flag of PREFER_IPV4 is looked up  *)
(* under the name the code binds, PREFER_IPV.)                             *)
C4_TrueInAnyCaseElseFalse ==
    pc = "done" =>
        \A x \in BoolSettings :
            EnvSet(x[2]) => settings[x[1]] = BoolV(IsTrueAnyCase(environ[x[2]].s))

(* A string that is no integer literal: empty or blank, or holding a       *)
(* character that is no digit, sign, underscore or whitespace              *)
Malformed(s) ==
    \/ \A i \in DOMAIN s : s[i] \in Whitespace
    \/ \E i \in DOMAIN s : ~IsDigit(s[i]) /\ s[i] \notin Whitespace \cup {"+", "-", "_"}

(* The integer-typed settings: setting, variable *)
IntSettings ==
    {<<"DATABASE.CONN_MAX_AGE", "DB_CONN_MAX_AGE">>,
     <<"REDIS.tasks.PORT", "REDIS_PORT">>,
     <<"REDIS.tasks.DATABASE", "REDIS_DATABASE">>,
     <<"REDIS.caching.PORT", "REDIS_CACHE_PORT">>,
     <<"REDIS.caching.DATABASE", "REDIS_CACHE_DATABASE">>,
     <<"EMAIL.PORT", "EMAIL_PORT">>, <<"EMAIL.TIMEOUT", "EMAIL_TIMEOUT">>,
     <<"LOGIN_TIMEOUT", "LOGIN_TIMEOUT">>,
     <<"RQ_DEFAULT_TIMEOUT", "RQ_DEFAULT_TIMEOUT">>,
     <<"SECURE_HSTS_SECONDS", "SECURE_HSTS_SECONDS">>}
        \cup {<<x, x>> : x \in ConditionalSettings \cap IntVars}

(* C8, as claimed: the import never completes with a malformed value in    *)
(* the variable of an integer-typed setting, and never binds such a        *)
(* setting to an unparsed string; it ends failed or with every setting     *)
(* that has a default bound.                                               *)
C8_MalformedIntegerIsFatal ==
    /\ \A x \in IntSettings :
          /\ pc = "done" /\ EnvSet(x[2]) => ~Malformed(environ[x[2]].s)
          /\ Bound(x[1]) /\ EnvSet(x[2]) => settings[x[1]].t = "int"
    /\ pc = "done" =>
          \A n \in SettingNames \ (ConditionalSettings
                                       \cup {"NAPALM_PASSWORD", "PREFER_IPV", "PREFER_IPV4"}) :
              Bound(n)


(* lines 274-331 have run *)
PowerResolved == pc \in {"security", "done"}

(* C11: the PREFER_IPV4 variable is mapped to the setting PREFER_IPV: when *)
(* it is "true" in any letter case PREFER_IPV is bound to true, and in no  *)
(* environment (variable unset, true or anything else) is a setting named  *)
(* PREFER_IPV4 ever bound.                                                 *)
C11_PreferIpv4BindsPreferIpv ==
    /\ ~Bound("PREFER_IPV4")
    /\ PowerResolved /\ EnvSet("PREFER_IPV4") /\ IsTrueAnyCase(environ["PREFER_IPV4"].s) =>
          settings["PREFER_IPV"] = BoolV(TRUE)
    /\ ~PowerResolved => ~Bound("PREFER_IPV")

(* C11 witness: PREFER_IPV4 is "TrUe", the import is over and PREFER_IPV is *)
(* true                                                                    *)
C11_Witness ==
    /\ pc = "done"
    /\ environ["PREFER_IPV4"] = Str(<<"T", "r", "U", "e">>)
    /\ settings["PREFER_IPV"] = BoolV(TRUE)
    /\ ~Bound("PREFER_IPV4")

(* The keys of the caching profile that take a tasks variable as default: *)
(* key, caching variable                                                   *)
InheritedKeys ==
    {<<"HOST", "REDIS_CACHE_HOST">>, <<"PORT", "REDIS_CACHE_PORT">>,
     <<"SSL", "REDIS_CACHE_SSL">>,
     <<"INSECURE_SKIP_TLS_VERIFY", "REDIS_CACHE_INSECURE_SKIP_TLS_VERIFY">>}

TasksKey(key) == "REDIS.tasks." \o key

CachingKey(key) == "REDIS.caching." \o key

(* value is the first line of the secret file, whitespace stripped at both *)
(* ends                                                                    *)
IsSecretLine(value, name) ==
    /\ value.t = "str"
    /\ \E line \in Prefixes(secrets[name].data) :
          /\ IsFirstLine(line, secrets[name].data)
          /\ IsStripped(value.s, line, TRUE)

(* The first line of the secret file holds a character that is not whitespace *)
HasSecretLine(name) ==
    /\ secrets[name].st = "ok"
    /\ \E line \in Prefixes(secrets[name].data) :
          /\ IsFirstLine(line, secrets[name].data)
          /\ \E i \in DOMAIN line : line[i] \notin Whitespace

(* The caching profile takes the tasks profile's value for each key whose  *)
(* REDIS_CACHE_* variable is unset, and its password from the              *)
(* redis_cache_password secret, then REDIS_CACHE_PASSWORD, then            *)
(* REDIS_PASSWORD, then "": never from the redis_password secret           *)
CachingInheritsVariables ==
    /\ \A k \in InheritedKeys :
          Bound(CachingKey(k[1])) /\ ~EnvSet(k[2]) =>
              settings[CachingKey(k[1])] = settings[TasksKey(k[1])]
    /\ Bound("REDIS.caching.PASSWORD") =>
          IF secrets["redis_cache_password"].st = "ok"
          THEN IsSecretLine(settings["REDIS.caching.PASSWORD"], "redis_cache_password")
          ELSE settings["REDIS.caching.PASSWORD"] =
                   EnvOr("REDIS_CACHE_PASSWORD", EnvOr("REDIS_PASSWORD", Str(<<>>)))

(* Nothing but the redis_password secret provides a Redis password *)
OnlyRedisPasswordSecret ==
    /\ NoSecretFile("redis_cache_password")
    /\ ~EnvSet("REDIS_PASSWORD")
    /\ ~EnvSet("REDIS_CACHE_PASSWORD")

(* C12, as claimed: the caching profile inherits the tasks profile's       *)
(* variables but not its secret, so with only the redis_password secret    *)
(* present the tasks and caching passwords differ.                         *)
C12_CachingInheritsVariablesNotSecret ==
    /\ CachingInheritsVariables
    /\ Bound("REDIS.caching.PASSWORD") /\ OnlyRedisPasswordSecret
          /\ ~NoSecretFile("redis_password") =>
          settings["REDIS.tasks.PASSWORD"] # settings["REDIS.caching.PASSWORD"]

(* C12, amended: the caching profile inherits the tasks profile's          *)
(* variables but not its secret; with only the redis_password secret       *)
(* present, readable and with a first line that is not blank, the tasks    *)
(* password is that line, the caching password is "", and they differ.     *)
(* The REDIS settings are bound unless the import failed.                  *)
C12_CachingInheritsVariablesNotSecretLine ==
    /\ CachingInheritsVariables
    /\ pc \notin {"required", "failed"} =>
          /\ Bound("REDIS.caching.PASSWORD")
          /\ \A k \in InheritedKeys : Bound(CachingKey(k[1])) /\ Bound(TasksKey(k[1]))
    /\ Bound("REDIS.caching.PASSWORD") /\ OnlyRedisPasswordSecret
          /\ HasSecretLine("redis_password") =>
          /\ IsSecretLine(settings["REDIS.tasks.PASSWORD"], "redis_password")
          /\ settings["REDIS.caching.PASSWORD"] = Str(<<>>)
          /\ settings["REDIS.tasks.PASSWORD"] # settings["REDIS.caching.PASSWORD"]

(* C12 witness: only the redis_password secret is mounted and REDIS_PORT   *)
(* is set; the caching profile took the port and not the secret            *)
C12_Witness ==
    /\ pc = "done"
    /\ secrets["redis_password"] = File(<<"s", "\n">>)
    /\ OnlyRedisPasswordSecret
    /\ environ["REDIS_PORT"] = Str(<<"7">>)
    /\ ~EnvSet("REDIS_CACHE_PORT")
    /\ settings["REDIS.caching.PORT"] = IntV(7)
    /\ settings["REDIS.tasks.PASSWORD"] = Str(<<"s">>)
    /\ settings["REDIS.caching.PASSWORD"] = Str(<<>>)

====
